---- MODULE Spec2Model ----
(***************************************************************************)
(* Voice chatbot: the recorder (utils/audio_handler.py), the speech        *)
(* playback queue (utils/text_to_speech.py), the remote model call         *)
(* (utils/gemini_api.py) and the front door with its conversation history  *)
(* (app.py), as state machines.  Each shared-state access of the Python    *)
(* code is one step, so that request threads, the capture thread and the   *)
(* speech worker interleave the way the interpreter lets them.             *)
(***************************************************************************)
EXTENDS Integers, Sequences, FiniteSets, TLC

(* ------------------------------------------------------------------ *)
(* Bounds of the model                                                 *)
(* ------------------------------------------------------------------ *)
NumClients == 2      \* request threads calling the recorder API
MaxSessions == 2     \* capture threads ever created in a run
MaxFrames == 2       \* chunks one capture thread reads in a run
MaxCalls == 3        \* start_recording / stop_recording calls in a run
NumCallers == 2      \* threads calling the speech API
MaxUtter == 3        \* non-blank speak() calls in a run
MaxStops == 2        \* stop_speaking() and cleanup() calls in a run
MaxBlank == 1        \* speak() calls with blank text in a run
NumHandlers == 2     \* request threads inside the chat handlers
MaxReq == 3          \* chat requests (and console commands) in a run
ChunkLen == 2        \* samples in a chunk

(* ------------------------------------------------------------------ *)
(* Configuration (config.py).  Both durations are read from the         *)
(* environment; the model runs the deployment SILENCE_DURATION=2,       *)
(* MAX_RECORDING_DURATION=4, with the clock counting seconds.  The two  *)
(* time stamps of the capture loop are kept as the time elapsed since   *)
(* they were taken: the loop reads them only in time.time() - stamp.    *)
(* ------------------------------------------------------------------ *)
SILENCE_DURATION == 2
MAX_RECORDING_DURATION == 4
SILENCE_THRESHOLD == 500
AUDIO_CHANNELS == 1
AUDIO_SAMPLE_RATE == 44100

\* self.audio.get_sample_size(pyaudio.paInt16): bytes per sample
SampleWidth == 2

Clients == 1..NumClients
Threads == 1..MaxSessions
NoThread == 0

VARIABLES
    \* AudioHandler (utils/audio_handler.py)
    is_recording,      \* self.is_recording
    audio_data,        \* self.audio_data: the list of frames
    recording_thread,  \* self.recording_thread: NoThread or a capture thread
    thr,               \* the capture threads: one _record_audio activation each
    nthreads,          \* capture threads created so far
    cl,                \* the request threads inside start_recording / stop_recording
    sessAwait,         \* the last started session no stop_recording has begun for
    ncalls             \* recorder calls made so far

recVars == <<is_recording, audio_data, recording_thread, thr, nthreads, cl, sessAwait, ncalls>>

VARIABLES
    \* TextToSpeech (utils/text_to_speech.py)
    engine,            \* self.engine is not None
    is_speaking,       \* self.is_speaking
    speech_queue,      \* self.speech_queue
    should_stop,       \* self.should_stop
    wk,                \* the worker thread (_speech_worker): position and text
    sp,                \* the threads inside speak / stop_speaking / cleanup
    log                \* what was enqueued, synthesized and stopped so far

ttsVars == <<engine, is_speaking, speech_queue, should_stop, wk, sp, log>>

VARIABLES
    \* the front door (app.py)
    mode,                  \* "web" (Flask) or "console" (sys.argv[1] == 'console')
    conversation_history,  \* the global conversation_history
    rq,                    \* the request threads inside a handler (console: thread 1)
    chat                   \* requests made, turns appended since the last clear

chatVars == <<mode, conversation_history, rq, chat>>

VARIABLES
    \* the process (app.py: module level, initialize_components, main)
    app,               \* where the process is, and the globals audio_handler,
                       \* gemini_api and tts (TRUE: an object, FALSE: None)
    served             \* the last request served and the answer it was given

appVars == <<app, served>>

vars == <<recVars, ttsVars, chatVars, appVars>>

notRec == <<ttsVars, chatVars, appVars>>
notTts == <<recVars, chatVars, appVars>>
notChat == <<recVars, engine, should_stop, wk, sp, log, appVars>>
notApp == <<recVars, ttsVars, chatVars>>

(* ------------------------------------------------------------------ *)
(* Recorder: initial state (AudioHandler.__init__)                      *)
(* ------------------------------------------------------------------ *)
\* a capture thread: its position, its stream, the locals of _record_audio,
\* the frames it appended and why it left its loop; and two records of what it
\* heard: the chunk the current run of chunks it took for silent began with,
\* and the chunk the current run of chunks with a root-mean-square below the
\* threshold began with, with the time elapsed since (0: the run is broken);
\* and whether stop_recording cleared is_recording while the thread was running
NoCapture == [pc |-> "unborn", stream |-> FALSE, since_start |-> 0, signalled |-> FALSE,
              silence_set |-> FALSE, since_silence |-> 0,
              nread |-> 0, run_first |-> 0,
              quiet_first |-> 0, since_quiet |-> 0, exitReason |-> "none"]

\* what a call returned: the operation, the kind of value, the frames of the
\* recording, and the session: for start_recording the one the call created,
\* for stop_recording the one the call is the next stop of
NoRet == [op |-> "none", kind |-> "none", frames |-> <<>>, sess |-> NoThread,
          wav |-> <<>>]

NoCall == [pc |-> "idle", join |-> NoThread, ret |-> NoRet]

InitRec ==
    /\ is_recording = FALSE
    /\ audio_data = <<>>
    /\ recording_thread = NoThread
    /\ thr = [t \in Threads |-> NoCapture]
    /\ nthreads = 0
    /\ cl = [c \in Clients |-> NoCall]
    /\ sessAwait = NoThread
    /\ ncalls = 0

(* ------------------------------------------------------------------ *)
(* AudioHandler.start_recording                                        *)
(* ------------------------------------------------------------------ *)
\* request threads that passed the is_recording test and will create a thread
Starting == {c \in Clients : cl[c].pc \in {"start_set", "start_clear", "start_thread"}}

RetOf(op, kind) == [NoRet EXCEPT !.op = op, !.kind = kind]

\* if self.is_recording: return False
StartCheck(c) ==
    /\ cl[c].pc = "idle"
    /\ IF is_recording
       THEN cl' = [cl EXCEPT ![c].pc = "returned", ![c].ret = RetOf("start", "False")]
       ELSE /\ nthreads + Cardinality(Starting) < MaxSessions
            /\ cl' = [cl EXCEPT ![c].pc = "start_set"]
    /\ UNCHANGED <<is_recording, audio_data, recording_thread, thr, nthreads, sessAwait>>
    /\ ncalls < MaxCalls
    /\ ncalls' = ncalls + 1
    /\ UNCHANGED notRec

\* self.is_recording = True
StartSet(c) ==
    /\ cl[c].pc = "start_set"
    /\ is_recording' = TRUE
    /\ cl' = [cl EXCEPT ![c].pc = "start_clear"]
    /\ UNCHANGED <<audio_data, recording_thread, thr, nthreads, sessAwait, ncalls>>
    /\ UNCHANGED notRec

\* self.audio_data = []
StartClear(c) ==
    /\ cl[c].pc = "start_clear"
    /\ audio_data' = <<>>
    /\ cl' = [cl EXCEPT ![c].pc = "start_thread"]
    /\ UNCHANGED <<is_recording, recording_thread, thr, nthreads, sessAwait, ncalls>>
    /\ UNCHANGED notRec

\* self.recording_thread = threading.Thread(target=self._record_audio)
\* self.recording_thread.start(); return True
StartThread(c) ==
    /\ cl[c].pc = "start_thread"
    /\ nthreads' = nthreads + 1
    /\ recording_thread' = nthreads + 1
    /\ thr' = [thr EXCEPT ![nthreads + 1].pc = "open"]
    /\ sessAwait' = nthreads + 1
    /\ cl' = [cl EXCEPT ![c].pc = "returned",
                        ![c].ret = [RetOf("start", "True") EXCEPT !.sess = nthreads + 1]]
    /\ UNCHANGED <<is_recording, audio_data, ncalls>>
    /\ UNCHANGED notRec

(* ------------------------------------------------------------------ *)
(* AudioHandler._record_audio: the capture thread.  A step of the thread *)
(* runs from one blocking call (audio.open, stream.read) to the next; the *)
(* statements in between touch the shared object only by appending the   *)
(* chunk and by reading is_recording in the loop condition.              *)
(* ------------------------------------------------------------------ *)
\* while self.is_recording: the loop goes on with the next stream.read, or is
\* left for the finally clause
WhileTest(th) ==
    IF is_recording THEN [th EXCEPT !.pc = "read"]
    ELSE [th EXCEPT !.pc = "finally", !.exitReason = "manual"]

\* stream = self.audio.open(...); start_time = time.time(); silence_start = None
\* A device that cannot be opened raises out of the thread, before the try.
ThreadOpen(t) ==
    /\ thr[t].pc = "open"
    /\ \E ok \in BOOLEAN :
         thr' = IF ok
                THEN [thr EXCEPT ![t] = WhileTest([@ EXCEPT !.stream = TRUE,
                                   !.since_start = 0, !.silence_set = FALSE])]
                ELSE [thr EXCEPT ![t].pc = "dead", ![t].exitReason = "openfail"]
    /\ UNCHANGED <<is_recording, audio_data, recording_thread, nthreads, cl, sessAwait, ncalls>>
    /\ UNCHANGED notRec

\* a chunk: ChunkLen signed 16-bit samples, each at one of these levels
Levels == {0, 200, 800, 1000}

Chunks == [1..ChunkLen -> Levels]

RECURSIVE SumTo(_, _)
\* f[1] + ... + f[n]
SumTo(f, n) == IF n = 0 THEN 0 ELSE f[n] + SumTo(f, n - 1)

\* a value stored in a signed 16-bit integer
Int16(n) == ((n + 32768) % 65536) - 32768

\* audio_chunk**2 on an int16 array: every square is stored in 16 bits
Squares16(chunk) == [i \in 1..ChunkLen |-> Int16(chunk[i] * chunk[i])]

\* volume = np.sqrt(np.mean(audio_chunk**2)); volume < SILENCE_THRESHOLD.
\* The mean is taken in floating point; the square root of a negative mean is
\* nan, and nan < threshold is False.
IsSilent(chunk) ==
    LET total == SumTo(Squares16(chunk), ChunkLen)
    IN total >= 0 /\ total < SILENCE_THRESHOLD * SILENCE_THRESHOLD * ChunkLen

\* the root-mean-square of the samples is below SILENCE_THRESHOLD
QuietChunk(chunk) ==
    SumTo([i \in 1..ChunkLen |-> chunk[i] * chunk[i]], ChunkLen)
        < SILENCE_THRESHOLD * SILENCE_THRESHOLD * ChunkLen

\* all the loop makes of a chunk is whether it takes it for silent; the second
\* field keeps whether the chunk is below the threshold
Heard == {[silent |-> IsSilent(chunk), quiet |-> QuietChunk(chunk)] : chunk \in Chunks}

\* volume < SILENCE_THRESHOLD, with the silence timer: the new silence_start
\* (set or None, and its age) and whether the loop breaks on silence
SilenceStep(th, silent) ==
    IF silent
    THEN IF ~th.silence_set
         THEN [set |-> TRUE, since |-> 0, brk |-> FALSE]
         ELSE [set |-> TRUE, since |-> th.since_silence,
               brk |-> th.since_silence > SILENCE_DURATION]
    ELSE [set |-> FALSE, since |-> 0, brk |-> FALSE]

\* a loop without the duration test
NeverTooLong(th) == FALSE

\* if time.time() - start_time > self.config.MAX_RECORDING_DURATION: break
TooLong(th) == th.since_start > MAX_RECORDING_DURATION

\* the loop body after a chunk was read and appended: the silence test, the
\* duration test, and the loop condition if neither breaks
AfterChunk(th, heard) ==
    LET silent == heard.silent
        quiet == heard.quiet
        s == SilenceStep(th, silent)
        counted == [th EXCEPT !.nread = @ + 1, !.silence_set = s.set,
                              !.since_silence = s.since,
                              !.run_first = IF ~silent THEN 0
                                            ELSE IF @ = 0 THEN th.nread + 1 ELSE @,
                              !.quiet_first = IF ~quiet THEN 0
                                              ELSE IF @ = 0 THEN th.nread + 1 ELSE @,
                              !.since_quiet = IF quiet /\ th.quiet_first # 0 THEN @ ELSE 0]
    IN IF s.brk THEN [counted EXCEPT !.pc = "finally", !.exitReason = "silence"]
       ELSE IF TooLong(th) THEN [counted EXCEPT !.pc = "finally", !.exitReason = "maxdur"]
       ELSE WhileTest(counted)

\* one iteration: data = stream.read(...); self.audio_data.append(data); the
\* tests.  A failed read raises into the except clause, which only prints.
ThreadRead(t) ==
    /\ thr[t].pc = "read"
    /\ thr[t].nread < MaxFrames
    /\ \E ok \in BOOLEAN, heard \in Heard :
         IF ~ok
         THEN /\ thr' = [thr EXCEPT ![t].pc = "finally", ![t].exitReason = "error"]
              /\ UNCHANGED audio_data
         ELSE /\ audio_data' = Append(audio_data, [sess |-> t, idx |-> thr[t].nread + 1])
              /\ thr' = [thr EXCEPT ![t] = AfterChunk(@, heard)]
    /\ UNCHANGED <<is_recording, recording_thread, nthreads, cl, sessAwait, ncalls>>
    /\ UNCHANGED notRec

\* a finally clause that leaves the stream as it is
ThreadFinallyLeak(t) ==
    /\ thr[t].pc = "finally"
    /\ is_recording' = FALSE
    /\ thr' = [thr EXCEPT ![t].pc = "done", ![t].since_start = 0,
                           ![t].signalled = FALSE, ![t].silence_set = FALSE, ![t].since_silence = 0,
                           ![t].run_first = 0, ![t].quiet_first = 0,
                           ![t].since_quiet = 0]
    /\ UNCHANGED <<audio_data, recording_thread, nthreads, cl, sessAwait, ncalls>>
    /\ UNCHANGED notRec

\* finally: stream.stop_stream(); stream.close(); self.is_recording = False
ThreadFinally(t) ==
    /\ thr[t].pc = "finally"
    /\ is_recording' = FALSE
    /\ thr' = [thr EXCEPT ![t].pc = "done", ![t].stream = FALSE, ![t].since_start = 0,
                           ![t].signalled = FALSE, ![t].silence_set = FALSE, ![t].since_silence = 0,
                           ![t].run_first = 0, ![t].quiet_first = 0,
                           ![t].since_quiet = 0]
    /\ UNCHANGED <<audio_data, recording_thread, nthreads, cl, sessAwait, ncalls>>
    /\ UNCHANGED notRec

\* the capture threads that read the clock again
Timing == {t \in Threads : thr[t].pc = "read"}

Later(n, cap) == IF n > cap THEN n ELSE n + 1

\* the wall clock advances by one second: every time stamp held by a capture
\* loop gets one second older (an age past its threshold is not counted further)
Tick ==
    /\ \E t \in Timing : \/ thr[t].since_start <= MAX_RECORDING_DURATION
                         \/ thr[t].silence_set /\ thr[t].since_silence <= SILENCE_DURATION
                         \/ thr[t].quiet_first # 0 /\ thr[t].since_quiet <= SILENCE_DURATION
    /\ thr' = [t \in Threads |->
                 IF t \in Timing
                 THEN [thr[t] EXCEPT
                         !.since_start = Later(@, MAX_RECORDING_DURATION),
                         !.since_silence = IF thr[t].silence_set
                                           THEN Later(@, SILENCE_DURATION) ELSE @,
                         !.since_quiet = IF thr[t].quiet_first # 0
                                         THEN Later(@, SILENCE_DURATION) ELSE @]
                 ELSE thr[t]]
    /\ UNCHANGED <<is_recording, audio_data, recording_thread, nthreads, cl, sessAwait, ncalls>>
    /\ UNCHANGED notRec

(* ------------------------------------------------------------------ *)
(* AudioHandler.stop_recording                                         *)
(* ------------------------------------------------------------------ *)
\* the bytes of one stream.read(AUDIO_CHUNK_SIZE): a sample of every channel
\* for every frame of the chunk
BlockBytes == ChunkLen * AUDIO_CHANNELS * SampleWidth

\* a writer that keeps only the last block
WavWriteLast(blocks) ==
    [nchannels |-> AUDIO_CHANNELS, sampwidth |-> SampleWidth,
     framerate |-> AUDIO_SAMPLE_RATE, data |-> <<blocks[Len(blocks)]>>,
     datalen |-> BlockBytes]

\* _save_audio_to_file: setnchannels, setsampwidth, setframerate,
\* writeframes(b''.join(self.audio_data)); the header's data length is the
\* number of bytes written
WavWrite(blocks) ==
    [nchannels |-> AUDIO_CHANNELS, sampwidth |-> SampleWidth,
     framerate |-> AUDIO_SAMPLE_RATE, data |-> blocks,
     datalen |-> Len(blocks) * BlockBytes]

\* wave.open(file, 'rb'): getnchannels(), getframerate(), getnframes() (the
\* data length divided by the frame size) and the data
WavRead(file) ==
    [nchannels |-> file.nchannels, framerate |-> file.framerate,
     nframes |-> file.datalen \div (file.sampwidth * file.nchannels),
     data |-> file.data]

\* the return of a stop_recording call of request thread c, with the file
\* written as a re-open reads it
StopRet(c, kind, frames) ==
    [cl[c].ret EXCEPT !.kind = kind, !.frames = frames,
                      !.wav = IF kind = "file" THEN <<WavRead(WavWrite(frames))>> ELSE <<>>]

\* stop_recording without its first test: the call always goes on to clear
\* the flag, join and save
StopUnchecked(c) ==
    /\ cl[c].pc = "idle"
    /\ cl' = [cl EXCEPT ![c].pc = "stop_set",
                        ![c].ret = [NoRet EXCEPT !.op = "stop", !.sess = sessAwait]]
    /\ sessAwait' = NoThread
    /\ UNCHANGED <<is_recording, audio_data, recording_thread, thr, nthreads>>
    /\ ncalls < MaxCalls
    /\ ncalls' = ncalls + 1
    /\ UNCHANGED notRec

\* if not self.is_recording: return None
StopCheck(c) ==
    /\ cl[c].pc = "idle"
    /\ LET call == [NoRet EXCEPT !.op = "stop", !.sess = sessAwait]
       IN cl' = IF ~is_recording
                THEN [cl EXCEPT ![c].pc = "returned", ![c].ret = [call EXCEPT !.kind = "None"]]
                ELSE [cl EXCEPT ![c].pc = "stop_set", ![c].ret = call]
    /\ sessAwait' = NoThread
    /\ UNCHANGED <<is_recording, audio_data, recording_thread, thr, nthreads>>
    /\ ncalls < MaxCalls
    /\ ncalls' = ncalls + 1
    /\ UNCHANGED notRec

\* self.is_recording = False
StopSet(c) ==
    /\ cl[c].pc = "stop_set"
    /\ is_recording' = FALSE
    /\ cl' = [cl EXCEPT ![c].pc = "stop_handle"]
    /\ thr' = [t \in Threads |->
                 IF thr[t].pc \in {"open", "read"}
                 THEN [thr[t] EXCEPT !.signalled = TRUE] ELSE thr[t]]
    /\ UNCHANGED <<audio_data, recording_thread, nthreads, sessAwait, ncalls>>
    /\ UNCHANGED notRec

\* if self.recording_thread:
StopHandle(c) ==
    /\ cl[c].pc = "stop_handle"
    /\ cl' = [cl EXCEPT ![c].join = recording_thread,
                        ![c].pc = IF recording_thread = NoThread THEN "stop_save"
                                  ELSE "stop_join"]
    /\ UNCHANGED <<is_recording, audio_data, recording_thread, thr, nthreads, sessAwait, ncalls>>
    /\ UNCHANGED notRec

\* self.recording_thread.join(): returns once that thread has ended
StopJoin(c) ==
    /\ cl[c].pc = "stop_join"
    /\ thr[cl[c].join].pc \in {"done", "dead"}
    /\ cl' = [cl EXCEPT ![c].pc = "stop_save"]
    /\ UNCHANGED <<is_recording, audio_data, recording_thread, thr, nthreads, sessAwait, ncalls>>
    /\ UNCHANGED notRec

\* if self.audio_data: return self._save_audio_to_file()   else: return None
\* (_save_audio_to_file writes b''.join(self.audio_data) into a WAV file)
StopSave(c) ==
    /\ cl[c].pc = "stop_save"
    /\ cl' = IF audio_data # <<>>
             THEN [cl EXCEPT ![c].pc = "returned", ![c].ret = StopRet(c, "file", audio_data)]
             ELSE [cl EXCEPT ![c].pc = "returned", ![c].ret = StopRet(c, "None", <<>>)]
    /\ UNCHANGED <<is_recording, audio_data, recording_thread, thr, nthreads, sessAwait, ncalls>>
    /\ UNCHANGED notRec

\* the caller has its answer; the request thread is free for the next request
Return(c) ==
    /\ cl[c].pc = "returned"
    /\ cl' = [cl EXCEPT ![c] = NoCall]
    /\ UNCHANGED <<is_recording, audio_data, recording_thread, thr, nthreads, sessAwait, ncalls>>
    /\ UNCHANGED notRec

\* a step of request thread c inside the recorder
ClientStep(c) ==
    \/ StartCheck(c) \/ StartSet(c) \/ StartClear(c) \/ StartThread(c)
    \/ StopCheck(c) \/ StopSet(c) \/ StopHandle(c) \/ StopJoin(c) \/ StopSave(c)
    \/ Return(c)

\* a step of capture thread t
CaptureStep(t) == ThreadOpen(t) \/ ThreadRead(t) \/ ThreadFinally(t)

\* the recorder driven by one caller at a time (the console loop, or a browser
\* that waits for each answer), with the clock running
NextRec ==
    \/ \E c \in {1} : ClientStep(c)
    \/ \E t \in Threads : CaptureStep(t)
    \/ Tick

\* chunk reads that return, paced against the clock: of the MaxFrames chunks a
\* session may read, the last one arrives after MAX_RECORDING_DURATION
ThreadReadPaced(t) ==
    /\ thr[t].nread < MaxFrames - 1 \/ TooLong(thr[t])
    /\ ThreadRead(t)

CaptureStepPaced(t) == ThreadOpen(t) \/ ThreadReadPaced(t) \/ ThreadFinally(t)

\* one caller who starts sessions and never stops one by hand, the clock, and
\* the capture threads
NextRecLive ==
    \/ \E c \in {1} : \/ StartCheck(c) \/ StartSet(c) \/ StartClear(c) \/ StartThread(c)
                       \/ Return(c)
    \/ \E t \in Threads : CaptureStepPaced(t)
    \/ Tick

\* the recorder driven by concurrent request threads (app.run(threaded=True)),
\* within one tick of the clock
NextRecRace ==
    \/ \E c \in Clients : ClientStep(c)
    \/ \E t \in Threads : CaptureStep(t)

(* ------------------------------------------------------------------ *)
(* Recorder: properties                                                *)
(* ------------------------------------------------------------------ *)
\* the capture threads inside the capture loop, holding an open input stream
Capturing == {t \in Threads : thr[t].stream}

\* C1: in every reachable state, under every interleaving of start_recording
\* and stop_recording calls of concurrent request threads with the capture
\* loop, at most one capture thread holds an open input stream.
C1_OneCaptureThread == Cardinality(Capturing) <= 1

\* the stop conditions the capture loop has by design
StopConditions == {"manual", "silence", "maxdur"}

\* C2: the next stop_recording after a session that appended at least one frame
\* and ended by the manual stop, the silence timeout or the duration timeout
\* returns the recording: None is returned only for zero frames or no session.
C2_StopReturnsRecording ==
    \A c \in Clients :
        ( /\ cl[c].pc = "returned"
          /\ cl[c].ret.op = "stop"
          /\ cl[c].ret.sess # NoThread
          /\ thr[cl[c].ret.sess].nread >= 1
          /\ thr[cl[c].ret.sess].exitReason \in StopConditions )
        => cl[c].ret.kind = "file"

\* request thread c makes this step as the first step of a start_recording call
CallsStart(c) ==
    /\ cl[c].pc = "idle"
    /\ \/ cl'[c].pc = "start_set"
       \/ cl'[c].pc = "returned" /\ cl'[c].ret.op = "start"

\* the sessions whose capture thread is inside its loop, about to read a chunk
InLoop == {t \in Threads : thr[t].pc = "read"}

\* C11: a start_recording call made while a session is active (its capture
\* thread is inside the capture loop) returns False at once: no thread is
\* created and the frames captured so far stay as they are.
C11_StartWhileActiveFails ==
    [][\A c \in Clients :
         (CallsStart(c) /\ InLoop # {}) =>
             /\ cl'[c].pc = "returned"
             /\ cl'[c].ret.kind = "False"
             /\ audio_data' = audio_data
             /\ nthreads' = nthreads]_vars

(* ------------------------------------------------------------------ *)
(* TextToSpeech: initial state (__init__)                               *)
(* ------------------------------------------------------------------ *)
Callers == 1..NumCallers

\* Python's None (also the sentinel cleanup() puts on the queue)
NONE == "<None>"

\* the text of the n-th utterance given to speak()
Text(n) == "u" \o ToString(n)

\* not text or not text.strip()
IsBlank(text) == text \in {"", " "}

\* a thread outside the speech API; inside stop_speaking it keeps whether the
\* call asked the engine to stop (halt), whether it was made while an utterance
\* was in synthesis that no call had asked the engine to stop (owed), and
\* whether it was made while an utterance was in synthesis, with no speak()
\* call since (mid)
Idle == [pc |-> "idle", text |-> "", seen |-> {}, cleanup |-> FALSE,
         halt |-> FALSE, owed |-> FALSE, mid |-> FALSE]

\* _initialize_engine leaves self.engine = None when pyttsx3.init() fails;
\* _start_speech_thread starts the worker.  A run either keeps the record of
\* its stop_speaking() calls (log.watch; the fields halt, owed and mid of the
\* callers, halted and quiet of the log) or leaves it at FALSE.
InitTts ==
    /\ engine \in BOOLEAN
    /\ is_speaking = FALSE
    /\ speech_queue = <<>>
    /\ should_stop = FALSE
    /\ wk = [pc |-> "test", text |-> ""]
    /\ sp = [c \in Callers |-> Idle]
    /\ \E watch \in BOOLEAN :
         log = [enq |-> <<>>, started |-> <<>>, done |-> 0, banned |-> {},
                stops |-> 0, utter |-> 0, taken |-> {}, dropped |-> {}, twice |-> FALSE,
                cleaned |-> 0, blanks |-> 0, watch |-> watch, quiet |-> FALSE,
                halted |-> FALSE, raised |-> FALSE]

\* the elements of a sequence
Range(q) == {q[i] : i \in 1..Len(q)}

(* ------------------------------------------------------------------ *)
(* queue.Queue                                                         *)
(* ------------------------------------------------------------------ *)
\* the position of the item get() removes
GetLast(q) == Len(q)

\* a get() that leaves the item in the queue
QueueKept(q) == q

GetIndex(q) == 1

QueueItem(q) == q[GetIndex(q)]

QueueRest(q) == [i \in 1..(Len(q) - 1) |-> IF i < GetIndex(q) THEN q[i] ELSE q[i + 1]]

\* the log after an item left the queue, taken by the worker or dropped by
\* stop_speaking (a sentinel the worker takes ends the worker and is not logged)
Removed(item, byWorker) ==
    IF item = NONE
    THEN IF byWorker THEN log ELSE [log EXCEPT !.dropped = @ \cup {NONE}]
    ELSE [log EXCEPT !.twice = @ \/ item \in (log.taken \cup log.dropped),
                     !.taken = IF byWorker THEN @ \cup {item} ELSE @,
                     !.dropped = IF byWorker THEN @ ELSE @ \cup {item}]

(* ------------------------------------------------------------------ *)
(* is_busy                                                             *)
(* ------------------------------------------------------------------ *)
\* return self.is_speaking or not self.speech_queue.empty()
IsBusy == is_speaking \/ speech_queue # <<>>

(* ------------------------------------------------------------------ *)
(* _speech_worker and _speak_text                                      *)
(* ------------------------------------------------------------------ *)
\* a loop test that does not look at should_stop
WorkerTestDeaf ==
    /\ wk.pc = "test"
    /\ wk' = [wk EXCEPT !.pc = "get"]
    /\ UNCHANGED <<engine, is_speaking, speech_queue, should_stop, sp, log>>
    /\ UNCHANGED notTts

\* while not self.should_stop:
WorkerTest ==
    /\ wk.pc = "test"
    /\ wk' = [wk EXCEPT !.pc = IF should_stop THEN "done" ELSE "get"]
    /\ UNCHANGED <<engine, is_speaking, speech_queue, should_stop, sp, log>>
    /\ UNCHANGED notTts

\* text = self.speech_queue.get(timeout=1): an item, or queue.Empty and continue.
\* if text is None: break.  Then _speak_text(text), which returns at once
\* without an engine (if not self.engine or not text.strip(): return).
WorkerGet ==
    /\ wk.pc = "get"
    /\ IF speech_queue = <<>>
       THEN /\ wk' = [wk EXCEPT !.pc = "test"]
            /\ UNCHANGED <<speech_queue, log>>
       ELSE /\ speech_queue' = QueueRest(speech_queue)
            /\ IF QueueItem(speech_queue) = NONE
               THEN /\ wk' = [wk EXCEPT !.pc = "done"]
                    /\ UNCHANGED log
               ELSE IF ~engine \/ IsBlank(QueueItem(speech_queue))
               THEN /\ wk' = [wk EXCEPT !.pc = "test"]
                    /\ log' = [Removed(QueueItem(speech_queue), TRUE) EXCEPT !.done = @ + 1]
               ELSE /\ wk' = [pc |-> "got", text |-> QueueItem(speech_queue)]
                    /\ log' = Removed(QueueItem(speech_queue), TRUE)
    /\ UNCHANGED <<engine, is_speaking, should_stop, sp>>
    /\ UNCHANGED notTts

\* self.is_speaking = True
WorkerMark ==
    /\ wk.pc = "got"
    /\ is_speaking' = TRUE
    /\ wk' = [wk EXCEPT !.pc = "marked"]
    /\ UNCHANGED <<engine, speech_queue, should_stop, sp, log>>
    /\ UNCHANGED notTts

\* self.engine.say(text); self.engine.runAndWait(): the call begins
WorkerEnter ==
    /\ wk.pc = "marked"
    /\ wk' = [wk EXCEPT !.pc = "run"]
    /\ log' = [log EXCEPT !.started = Append(@, wk.text), !.halted = FALSE]
    /\ UNCHANGED <<engine, is_speaking, speech_queue, should_stop, sp>>
    /\ UNCHANGED notTts

\* runAndWait returns (the utterance is over, was halted, or the engine
\* raised); finally: self.is_speaking = False; then task_done()
WorkerLeave ==
    /\ wk.pc = "run"
    /\ is_speaking' = FALSE
    /\ wk' = [pc |-> "test", text |-> ""]
    /\ log' = [log EXCEPT !.done = @ + 1, !.halted = FALSE]
    /\ UNCHANGED <<engine, speech_queue, should_stop, sp>>
    /\ UNCHANGED notTts

\* an exception that leaves _speak_text and the worker loop: the thread ends
\* with is_speaking still True
WorkerRaiseDies ==
    /\ wk.pc = "run"
    /\ wk' = [pc |-> "done", text |-> ""]
    /\ log' = [log EXCEPT !.halted = FALSE, !.raised = TRUE]
    /\ UNCHANGED <<engine, is_speaking, speech_queue, should_stop, sp>>
    /\ UNCHANGED notTts

\* runAndWait raises: except Exception as e: print(...); finally:
\* self.is_speaking = False; _speak_text returns, then task_done() and the
\* next round of the worker loop
WorkerRaise ==
    /\ wk.pc = "run"
    /\ is_speaking' = FALSE
    /\ wk' = [pc |-> "test", text |-> ""]
    /\ log' = [log EXCEPT !.done = @ + 1, !.halted = FALSE, !.raised = TRUE]
    /\ UNCHANGED <<engine, speech_queue, should_stop, sp>>
    /\ UNCHANGED notTts

(* ------------------------------------------------------------------ *)
(* speak                                                               *)
(* ------------------------------------------------------------------ *)
\* a speak() that queues blank text too
SpeakBlankQueued(c) ==
    /\ sp[c].pc = "idle"
    /\ log.blanks < MaxBlank
    /\ \E text \in {"", " "} : speech_queue' = Append(speech_queue, text)
    /\ log' = [log EXCEPT !.blanks = @ + 1]
    /\ UNCHANGED <<engine, is_speaking, should_stop, wk, sp>>
    /\ UNCHANGED notTts

\* speak(text, blocking) with blank text, in either mode:
\* if not text or not text.strip(): return
SpeakBlank(c) ==
    /\ sp[c].pc = "idle"
    /\ log.blanks < MaxBlank
    /\ \E text \in {"", " "}, blocking \in BOOLEAN : IsBlank(text)
    /\ log' = [log EXCEPT !.blanks = @ + 1]
    /\ UNCHANGED <<engine, is_speaking, speech_queue, should_stop, wk, sp>>
    /\ UNCHANGED notTts

\* the calls in progress after a speak() call of another thread: a
\* stop_speaking() in progress is no longer one without a concurrent speak()
Overtaken == [d \in Callers |-> [sp[d] EXCEPT !.mid = FALSE]]

\* speak(text, blocking=False): self.speech_queue.put(text)
SpeakQueued(c) ==
    /\ sp[c].pc = "idle"
    /\ log.utter < MaxUtter
    /\ LET text == Text(log.utter + 1)
       IN /\ ~IsBlank(text)
          /\ speech_queue' = Append(speech_queue, text)
          /\ log' = [log EXCEPT !.utter = @ + 1, !.enq = Append(@, text),
                                !.quiet = FALSE]
    /\ sp' = Overtaken
    /\ UNCHANGED <<engine, is_speaking, should_stop, wk>>
    /\ UNCHANGED notTts

\* speak(text, blocking=True): self._speak_text(text), in the caller's thread,
\* up to self.is_speaking = True
SpeakBlocking(c) ==
    /\ sp[c].pc = "idle"
    /\ log.utter < MaxUtter
    /\ LET text == Text(log.utter + 1)
       IN /\ ~IsBlank(text)
          /\ log' = [log EXCEPT !.utter = @ + 1, !.quiet = FALSE]
          /\ IF ~engine
             THEN /\ sp' = Overtaken
                  /\ UNCHANGED is_speaking
             ELSE /\ is_speaking' = TRUE
                  /\ sp' = [Overtaken EXCEPT ![c].pc = "marked", ![c].text = text]
    /\ UNCHANGED <<engine, speech_queue, should_stop, wk>>
    /\ UNCHANGED notTts

\* self.engine.say(text); self.engine.runAndWait(): the call begins
CallerEnter(c) ==
    /\ sp[c].pc = "marked"
    /\ sp' = [sp EXCEPT ![c].pc = "run"]
    /\ log' = [log EXCEPT !.halted = FALSE]
    /\ UNCHANGED <<engine, is_speaking, speech_queue, should_stop, wk>>
    /\ UNCHANGED notTts

\* runAndWait returns; finally: self.is_speaking = False
CallerLeave(c) ==
    /\ sp[c].pc = "run"
    /\ is_speaking' = FALSE
    /\ sp' = [sp EXCEPT ![c] = Idle]
    /\ log' = [log EXCEPT !.halted = FALSE]
    /\ UNCHANGED <<engine, speech_queue, should_stop, wk>>
    /\ UNCHANGED notTts

(* ------------------------------------------------------------------ *)
(* stop_speaking and cleanup                                           *)
(* ------------------------------------------------------------------ *)
\* the utterances enqueued whose synthesis has not started
NotStarted == Range(log.enq) \ Range(log.started)

\* an utterance is inside self.engine.say(text); self.engine.runAndWait()
MidUtterance == wk.pc = "run" \/ \E d \in Callers : sp[d].pc = "run"

\* stop_speaking(): if self.engine and self.is_speaking: self.engine.stop()
\* (the engine ends the utterance it is in: WorkerLeave, CallerLeave)
StopEngine(c) ==
    /\ sp[c].pc = "idle"
    /\ log.stops < MaxStops
    /\ sp' = [sp EXCEPT ![c].pc = "drain", ![c].seen = NotStarted,
                        ![c].halt = log.watch /\ engine /\ is_speaking,
                        ![c].owed = log.watch /\ MidUtterance /\ ~log.halted,
                        ![c].mid = log.watch /\ MidUtterance]
    /\ log' = [log EXCEPT !.stops = @ + 1,
                         !.halted = @ \/ (log.watch /\ engine /\ is_speaking
                                                    /\ MidUtterance)]
    /\ UNCHANGED <<engine, is_speaking, speech_queue, should_stop, wk>>
    /\ UNCHANGED notTts

\* while not self.speech_queue.empty(): get_nowait(); task_done()
\* one round of the loop; the loop is left when the queue is found empty
Drain(c) ==
    /\ sp[c].pc = "drain"
    /\ IF speech_queue = <<>>
       THEN /\ sp' = [sp EXCEPT ![c].pc = "unmark"]
            /\ UNCHANGED <<speech_queue, log>>
       ELSE /\ speech_queue' = QueueRest(speech_queue)
            /\ log' = Removed(QueueItem(speech_queue), FALSE)
            /\ UNCHANGED sp
    /\ UNCHANGED <<engine, is_speaking, should_stop, wk>>
    /\ UNCHANGED notTts

\* self.is_speaking = False; stop_speaking returns (and cleanup with it)
Unmark(c) ==
    /\ sp[c].pc = "unmark"
    /\ is_speaking' = FALSE
    /\ sp' = [sp EXCEPT ![c] = Idle]
    /\ log' = [log EXCEPT !.banned = @ \cup (sp[c].seen \ Range(log.started)),
                         !.cleaned = IF sp[c].cleanup THEN @ + 1 ELSE @,
                         !.quiet = @ \/ sp[c].mid]
    /\ UNCHANGED <<engine, speech_queue, should_stop, wk>>
    /\ UNCHANGED notTts

\* cleanup(): self.should_stop = True
CleanupFlag(c) ==
    /\ sp[c].pc = "idle"
    /\ log.stops < MaxStops
    /\ should_stop' = TRUE
    /\ sp' = [sp EXCEPT ![c].pc = "put", ![c].cleanup = TRUE]
    /\ log' = [log EXCEPT !.stops = @ + 1]
    /\ UNCHANGED <<engine, is_speaking, speech_queue, wk>>
    /\ UNCHANGED notTts

\* self.speech_queue.put(None)
CleanupPut(c) ==
    /\ sp[c].pc = "put"
    /\ speech_queue' = Append(speech_queue, NONE)
    /\ sp' = [sp EXCEPT ![c].pc = "join"]
    /\ UNCHANGED <<engine, is_speaking, should_stop, wk, log>>
    /\ UNCHANGED notTts

\* a wait that gives up at once
GivenUp == TRUE

\* the worker is where a two-second wait can leave it: ended, or inside
\* runAndWait(), the one call of the loop without a time limit (get() gives up
\* after one second)
WaitedOut == wk.pc \in {"done", "run"}

\* if self.speech_thread.is_alive(): self.speech_thread.join(timeout=2); the
\* wait is over when the worker has ended or the two seconds have passed; then
\* self.stop_speaking()
CleanupJoin(c) ==
    /\ sp[c].pc = "join"
    /\ WaitedOut
    /\ sp' = [sp EXCEPT ![c].pc = "drain", ![c].seen = NotStarted]
    /\ UNCHANGED <<engine, is_speaking, speech_queue, should_stop, wk, log>>
    /\ UNCHANGED notTts

WorkerStep == WorkerTest \/ WorkerGet \/ WorkerMark \/ WorkerEnter \/ WorkerLeave

CallerStep(c) ==
    \/ SpeakBlank(c) \/ SpeakQueued(c) \/ SpeakBlocking(c) \/ CallerEnter(c) \/ CallerLeave(c)
    \/ StopEngine(c) \/ Drain(c) \/ Unmark(c)
    \/ CleanupFlag(c) \/ CleanupPut(c) \/ CleanupJoin(c)

NextTts ==
    \/ WorkerStep
    \/ \E c \in Callers : CallerStep(c)

\* the thread that shuts the application down (atexit, the signal handler)
ShutdownThread == 1

\* the queue alone: speak() in queued mode and stop_speaking() from any caller,
\* cleanup() from the shutdown thread, and the worker
NextQueue ==
    \/ WorkerStep
    \/ \E c \in Callers : SpeakQueued(c) \/ StopEngine(c) \/ Drain(c) \/ Unmark(c)
    \/ CleanupFlag(ShutdownThread) \/ CleanupPut(ShutdownThread) \/ CleanupJoin(ShutdownThread)

\* speak() in queued mode and stop_speaking() from any caller, and the worker
NextStop ==
    \/ WorkerStep
    \/ \E c \in Callers : SpeakQueued(c) \/ StopEngine(c) \/ Drain(c) \/ Unmark(c)

\* a thread that serves a request (send_text, stop_speaking in app.py)
HandlerThread == 2

\* shutdown: one request thread calls speak() in queued mode and
\* stop_speaking(), the shutdown thread calls cleanup(), and the worker runs
NextShutdown ==
    \/ WorkerStep
    \/ SpeakQueued(HandlerThread)
    \/ \E c \in {HandlerThread, ShutdownThread} : StopEngine(c) \/ Drain(c) \/ Unmark(c)
    \/ CleanupFlag(ShutdownThread) \/ CleanupPut(ShutdownThread) \/ CleanupJoin(ShutdownThread)

\* repeated cleanup(): as NextShutdown, with no speak() call while a cleanup()
\* is in progress
NextCleanup ==
    \/ WorkerStep
    \/ sp[ShutdownThread].pc = "idle" /\ SpeakQueued(HandlerThread)
    \/ \E c \in {HandlerThread, ShutdownThread} : StopEngine(c) \/ Drain(c) \/ Unmark(c)
    \/ CleanupFlag(ShutdownThread) \/ CleanupPut(ShutdownThread) \/ CleanupJoin(ShutdownThread)

\* playback alone: speak() callers and the worker, nobody calls stop_speaking()
\* or cleanup()
NextPlay ==
    \/ WorkerStep
    \/ \E c \in Callers :
         \/ SpeakBlank(c) \/ SpeakQueued(c) \/ SpeakBlocking(c)
         \/ CallerEnter(c) \/ CallerLeave(c)

\* playback with an engine that can fail: the speak() callers and the worker,
\* whose runAndWait() returns or raises
NextFaulty ==
    \/ WorkerStep
    \/ WorkerRaise
    \/ \E c \in Callers :
         \/ SpeakBlank(c) \/ SpeakQueued(c) \/ SpeakBlocking(c)
         \/ CallerEnter(c) \/ CallerLeave(c)

(* ------------------------------------------------------------------ *)
(* GeminiAPI.generate_response (utils/gemini_api.py)                    *)
(* ------------------------------------------------------------------ *)
CONNECT_FAIL == "I'm sorry, I'm having trouble connecting to the AI service."
INVALID_RESPONSE == "I'm sorry, I received an invalid response from the AI service."
UNEXPECTED == "I'm sorry, an unexpected error occurred."
NO_RESPONSE == "I'm sorry, I couldn't generate a response."

\* what the remote call can do: a candidate with text, a candidate with empty
\* text, no connection or a timeout, an HTTP error status, a body that is not
\* JSON, JSON of another shape (a key or an index is missing), JSON with no
\* (or an empty) candidate list, JSON of the expected shape whose "text" is
\* not a string (null)
Outcomes == {"reply", "empty_reply", "transport", "http_error", "unparsable",
             "malformed", "no_candidates", "nontext"}

\* response.json() raises the JSON error of the installed libraries:
\* requests.exceptions.JSONDecodeError (requests >= 2.27), json.JSONDecodeError,
\* or simplejson's, which is only a ValueError
JsonLibs == {"requests", "json", "simplejson"}

\* the classes the exception raised inside the try block is an instance of
\* (the empty set: nothing is raised)
Raises(outcome, lib) ==
    CASE outcome \in {"transport", "http_error"} -> {"RequestException", "Exception"}
      [] outcome = "unparsable" /\ lib = "requests" ->
             {"RequestException", "JSONDecodeError", "Exception"}
      [] outcome = "unparsable" /\ lib = "json" -> {"JSONDecodeError", "Exception"}
      [] outcome = "unparsable" /\ lib = "simplejson" -> {"Exception"}
      [] outcome = "malformed" -> {"Exception"}
      [] OTHER -> {}

Returned(text) == [raised |-> FALSE, value |-> text]

Propagated == [raised |-> TRUE, value |-> ""]

\* except RequestException / except json.JSONDecodeError / except Exception,
\* tried in this order
Handle(exc) ==
    IF "RequestException" \in exc THEN Returned(CONNECT_FAIL)
    ELSE IF "JSONDecodeError" \in exc THEN Returned(INVALID_RESPONSE)
    ELSE IF "Exception" \in exc THEN Returned(UNEXPECTED)
    ELSE Propagated

\* {"role": role, "parts": [{"text": text}]}
Entry(role, text) == [role |-> role, parts |-> <<[text |-> text]>>]

\* contents: for msg in conversation_history: role = msg.get("role", "user"),
\* an entry with that role and msg["content"]; then the entry of user_input.
\* (A turn of the history always has its "role": the role goes through as the
\* handlers wrote it.)
Contents(history, user_input) ==
    Append([i \in 1..Len(history) |-> Entry(history[i].role, history[i].content)],
           Entry("user", user_input))

\* generate_response(user_input, conversation_history), for well-formed turns:
\* the body of the try block, then the except clauses
GenerateResponse(reply, outcome, lib) ==
    IF Raises(outcome, lib) # {} THEN Handle(Raises(outcome, lib))
    ELSE IF outcome = "no_candidates" THEN Returned(NO_RESPONSE)
    ELSE IF outcome = "empty_reply" THEN Returned("")
    ELSE IF outcome = "nontext" THEN Returned(NONE)
    ELSE Returned(reply)

(* ------------------------------------------------------------------ *)
(* The front door: conversation history (app.py)                        *)
(* ------------------------------------------------------------------ *)
MaxHistory == 20

Handlers == 1..NumHandlers

Turn(role, content) == [role |-> role, content |-> content]

\* conversation_history[:20]
FirstTurns(h) == SubSeq(h, 1, IF Len(h) > MaxHistory THEN MaxHistory ELSE Len(h))

\* conversation_history[-20:]
LastTurns(h) == SubSeq(h, IF Len(h) > MaxHistory THEN Len(h) - MaxHistory + 1 ELSE 1, Len(h))

\* a history left by k earlier turns of earlier requests
Earlier(k) == [i \in 1..k |-> Turn(IF i % 2 = 1 THEN "user" ELSE "assistant",
                                   "p" \o ToString(i))]

NoRequest == [pc |-> "idle", kind |-> "none", text |-> "", outcome |-> "none",
              resp |-> Returned(""), tmp |-> <<>>, ans |-> "none", prior |-> <<>>,
              req |-> <<>>]

\* the process serves HTTP or runs the console loop; the history holds the
\* turns of the requests served so far
InitChat ==
    /\ mode \in {"web", "console"}
    /\ \E k \in {0, MaxHistory - 2, MaxHistory} : conversation_history = Earlier(k)
    /\ rq = [h \in Handlers |-> NoRequest]
    /\ chat = [n |-> 0, appended |-> conversation_history, overlap |-> FALSE,
               cleared |-> FALSE]

Busy(h) == rq[h].pc # "idle"

OthersBusy(h) == \E g \in Handlers \ {h} : Busy(g)

\* str.strip() of the texts a request can carry
Strip(raw) == IF IsBlank(raw) THEN "" ELSE raw

\* a test that takes every value for a text
NeverFalsy(value) == FALSE

\* not text, not audio_file, not transcribed_text: None and the empty string
\* are falsy
Falsy(value) == value \in {"", NONE}

\* /send_text: text = data.get('text', '').strip(); if not text: the request
\* ends.  /stop_recording: audio_file = audio_handler.stop_recording(); if not
\* audio_file: it ends; transcribed_text = transcribe_audio(audio_file); if not
\* transcribed_text: it ends.  The text the request goes on with, if any.
RequestText(kind, raw, audio_file) ==
    IF kind = "send_text" THEN Strip(raw)
    ELSE IF Falsy(audio_file) THEN ""
    ELSE raw

\* /send_text and /stop_recording up to the remote call; console: the 'text'
\* and 'voice' commands.  No text, no audio or no transcription ends the
\* request with success false.
Begin(h) ==
    /\ rq[h].pc = "idle"
    /\ mode = "console" => h = 1
    /\ chat.n < MaxReq
    /\ \E kind \in {"send_text", "stop_recording"},
          raw \in {"t" \o ToString(chat.n + 1), "", " ", NONE},
          audio_file \in {"file", NONE} :
         /\ kind = "send_text" => (raw # NONE /\ audio_file = NONE)
         /\ kind = "stop_recording" => raw # " "
         /\ rq' = [rq EXCEPT ![h] =
                     IF Falsy(RequestText(kind, raw, audio_file))
                     THEN [NoRequest EXCEPT !.pc = "answered", !.kind = kind,
                                            !.text = RequestText(kind, raw, audio_file),
                                            !.ans = "failure"]
                     ELSE [NoRequest EXCEPT !.pc = "gen", !.kind = kind,
                                            !.text = RequestText(kind, raw, audio_file)]]
    /\ chat' = [chat EXCEPT !.n = @ + 1, !.overlap = @ \/ OthersBusy(h)]
    /\ UNCHANGED <<mode, conversation_history, is_speaking, speech_queue>>
    /\ UNCHANGED notChat

\* ai_response = gemini_api.generate_response(text, conversation_history=...)
\* web: an exception ends the request with success false; console: a falsy
\* reply skips the rest of the command, an exception ends the loop
Generate(h) ==
    /\ rq[h].pc = "gen"
    /\ \E outcome \in Outcomes, lib \in JsonLibs :
         LET resp == GenerateResponse("r" \o ToString(chat.n), outcome, lib)
         IN rq' = [rq EXCEPT ![h].outcome = outcome, ![h].resp = resp,
                      ![h].prior = conversation_history,
                      ![h].req = Contents(conversation_history, rq[h].text),
                      ![h].pc = IF resp.raised THEN "answered"
                                ELSE IF mode = "console" /\ resp.value \in {"", NONE}
                                     THEN "answered"
                                ELSE "user",
                      ![h].ans = IF resp.raised THEN "failure" ELSE @]
    /\ UNCHANGED <<mode, conversation_history, chat, is_speaking, speech_queue>>
    /\ UNCHANGED notChat

\* conversation_history.append({"role": "user", "content": text})
AppendUser(h) ==
    /\ rq[h].pc = "user"
    /\ conversation_history' = Append(conversation_history, Turn("user", rq[h].text))
    /\ chat' = [chat EXCEPT !.appended = Append(@, Turn("user", rq[h].text)),
                           !.cleared = FALSE]
    /\ rq' = [rq EXCEPT ![h].pc = "assistant"]
    /\ UNCHANGED <<mode, is_speaking, speech_queue>>
    /\ UNCHANGED notChat

\* conversation_history.append({"role": "assistant", "content": ai_response})
AppendAssistant(h) ==
    /\ rq[h].pc = "assistant"
    /\ conversation_history' = Append(conversation_history, Turn("assistant", rq[h].resp.value))
    /\ chat' = [chat EXCEPT !.appended = Append(@, Turn("assistant", rq[h].resp.value))]
    /\ rq' = [rq EXCEPT ![h].pc = IF mode = "web" THEN "trim" ELSE "speak"]
    /\ UNCHANGED <<mode, is_speaking, speech_queue>>
    /\ UNCHANGED notChat

\* if len(conversation_history) > 20: ... conversation_history[-20:]
\* (web handlers only; the slice is a new list, not yet stored)
Trim(h) ==
    /\ rq[h].pc = "trim"
    /\ rq' = IF Len(conversation_history) > MaxHistory
             THEN [rq EXCEPT ![h].pc = "store", ![h].tmp = LastTurns(conversation_history)]
             ELSE [rq EXCEPT ![h].pc = "speak"]
    /\ UNCHANGED <<mode, conversation_history, chat, is_speaking, speech_queue>>
    /\ UNCHANGED notChat

\* conversation_history = (the slice)
Store(h) ==
    /\ rq[h].pc = "store"
    /\ conversation_history' = rq[h].tmp
    /\ rq' = [rq EXCEPT ![h].pc = "speak", ![h].tmp = <<>>]
    /\ UNCHANGED <<mode, chat, is_speaking, speech_queue>>
    /\ UNCHANGED notChat

\* web: if ai_response: tts.speak(ai_response), then the JSON answer;
\* console: tts.speak(ai_response, blocking=True) up to is_speaking = True
Speak(h) ==
    /\ rq[h].pc = "speak"
    /\ IF mode = "web"
       THEN /\ speech_queue' = IF rq[h].resp.value = NONE \/ IsBlank(rq[h].resp.value)
                               THEN speech_queue
                               ELSE Append(speech_queue, rq[h].resp.value)
            /\ rq' = [rq EXCEPT ![h].pc = "answered", ![h].ans = "success"]
            /\ UNCHANGED is_speaking
       ELSE /\ is_speaking' = (engine \/ is_speaking)
            /\ rq' = [rq EXCEPT ![h].pc = IF engine THEN "spoken" ELSE "answered"]
            /\ UNCHANGED speech_queue
    /\ UNCHANGED <<mode, conversation_history, chat>>
    /\ UNCHANGED notChat

\* console: engine.say(text); engine.runAndWait(); finally: is_speaking = False
Spoken(h) ==
    /\ rq[h].pc = "spoken"
    /\ is_speaking' = FALSE
    /\ rq' = [rq EXCEPT ![h].pc = "answered"]
    /\ UNCHANGED <<mode, conversation_history, chat, speech_queue>>
    /\ UNCHANGED notChat

\* the answer is sent (web), the loop asks for the next command (console)
Answer(h) ==
    /\ rq[h].pc = "answered"
    /\ rq' = [rq EXCEPT ![h] = NoRequest]
    /\ UNCHANGED <<mode, conversation_history, chat, is_speaking, speech_queue>>
    /\ UNCHANGED notChat

\* a clear_history that empties the speech queue as well
ClearAll(h) ==
    /\ rq[h].pc = "idle"
    /\ mode = "web"
    /\ conversation_history # <<>>
    /\ conversation_history' = <<>>
    /\ speech_queue' = <<>>
    /\ chat' = [chat EXCEPT !.appended = <<>>, !.overlap = OthersBusy(h), !.cleared = TRUE]
    /\ UNCHANGED <<mode, rq, is_speaking>>
    /\ UNCHANGED notChat

\* /clear_history: conversation_history = []
ClearHistory(h) ==
    /\ rq[h].pc = "idle"
    /\ mode = "web"
    /\ conversation_history # <<>>
    /\ conversation_history' = <<>>
    /\ chat' = [chat EXCEPT !.appended = <<>>, !.overlap = OthersBusy(h), !.cleared = TRUE]
    /\ UNCHANGED <<mode, rq, is_speaking, speech_queue>>
    /\ UNCHANGED notChat

HandlerStep(h) ==
    \/ Begin(h) \/ Generate(h) \/ AppendUser(h) \/ AppendAssistant(h) \/ Trim(h)
    \/ Store(h) \/ Speak(h) \/ Spoken(h) \/ Answer(h) \/ ClearHistory(h)

\* concurrent request threads (app.run(threaded=True))
NextChat == \E h \in Handlers : HandlerStep(h)

\* concurrent request threads of the web server (app.run(threaded=True)), one
\* request short of MaxReq
NextChatRace ==
    \E h \in Handlers :
        \/ chat.n < MaxReq - 1 /\ Begin(h)
        \/ Generate(h) \/ AppendUser(h) \/ AppendAssistant(h) \/ Trim(h)
        \/ Store(h) \/ Speak(h) \/ Answer(h) \/ ClearHistory(h)

\* one request at a time: the console loop, or a browser that waits for each
\* answer before it sends the next request
NextChatSeq == \E h \in {1} : HandlerStep(h)

(* ------------------------------------------------------------------ *)
(* The process: start-up (app.py, config.py)                           *)
(* ------------------------------------------------------------------ *)
\* no request served yet
NoReply == [n |-> 0, endpoint |-> "none", success |-> "absent", error |-> FALSE,
            failed |-> FALSE, escaped |-> FALSE, google |-> 0, sphinx |-> 0,
            value |-> NONE, readable |-> FALSE, primary |-> "none"]

\* app.py is run as a script (launch "main") or imported by a WSGI server that
\* serves app (launch "wsgi": initialize_components is never called);
\* key: GEMINI_API_KEY is set in the environment or the .env file;
\* gemini_api is created at module level with the key or its fallback when
\* utils.gemini_api can be imported
InitApp ==
    /\ \E launch \in {"main", "wsgi"}, key \in BOOLEAN, provider \in {"gemini", "none"},
          console \in BOOLEAN :
         app = [pc |-> IF launch = "main" THEN "validate" ELSE "serving",
                launch |-> launch, key |-> key, provider |-> provider,
                console |-> console /\ launch = "main",
                audio_handler |-> FALSE, gemini_api |-> (provider = "gemini"),
                tts |-> FALSE]
    /\ served = NoReply

\* initialize_components returned False: print, sys.exit(1)
Exited == [app EXCEPT !.pc = "exited"]

\* a start-up that does not look at the configuration
NoValidation ==
    /\ app.pc = "validate"
    /\ app' = [app EXCEPT !.pc = "audio"]
    /\ UNCHANGED served
    /\ UNCHANGED notApp

\* config.validate_config(): raises ValueError without GEMINI_API_KEY
ValidateConfig ==
    /\ app.pc = "validate"
    /\ app' = IF app.key THEN [app EXCEPT !.pc = "audio"] ELSE Exited
    /\ UNCHANGED served
    /\ UNCHANGED notApp

\* audio_handler = AudioHandler(): pyaudio.PyAudio() or sr.Microphone() can raise
CreateAudioHandler ==
    /\ app.pc = "audio"
    /\ \E ok \in BOOLEAN :
         app' = IF ok THEN [app EXCEPT !.pc = "ai", !.audio_handler = TRUE] ELSE Exited
    /\ UNCHANGED served
    /\ UNCHANGED notApp

\* the AI client, when the module level left gemini_api None: without a
\* provider, raise RuntimeError("No valid AI API provider available")
CreateClient ==
    /\ app.pc = "ai"
    /\ app' = IF app.gemini_api THEN [app EXCEPT !.pc = "tts"]
              ELSE IF app.provider = "gemini"
                   THEN [app EXCEPT !.pc = "tts", !.gemini_api = TRUE]
              ELSE Exited
    /\ UNCHANGED served
    /\ UNCHANGED notApp

\* tts = TextToSpeech() (a failing engine leaves self.engine None), the
\* connection test, whose result is only printed, and main's choice of the
\* console loop or the web server
CreateTts ==
    /\ app.pc = "tts"
    /\ app' = [app EXCEPT !.tts = TRUE,
                          !.pc = IF app.console THEN "console" ELSE "serving"]
    /\ UNCHANGED served
    /\ UNCHANGED notApp

Boot == ValidateConfig \/ CreateAudioHandler \/ CreateClient \/ CreateTts

(* ------------------------------------------------------------------ *)
(* Transcription (AudioHandler.transcribe_audio, _perform_recognition)  *)
(* ------------------------------------------------------------------ *)
\* what recognizer.recognize_google(audio) does: returns a transcript (which
\* can be empty), raises sr.UnknownValueError, raises sr.RequestError, or
\* raises something else
RecognitionResults == {"text", "empty", "UnknownValueError", "RequestError", "other"}

\* what recognizer.recognize_sphinx(audio) does
OfflineResults == {"text", "raise"}

\* the result of a recognition: the value returned unless an exception left
\* the function, and the calls made to the two backends
Recognized(value, raised, google, sphinx) ==
    [value |-> value, raised |-> raised, google |-> google, sphinx |-> sphinx]

\* a recognition that falls back to the offline backend whenever the primary
\* one gave no transcript
FallBackAlways(primary, offline) ==
    IF primary \in {"text", "empty"}
    THEN Recognized(IF primary = "text" THEN "words" ELSE "", FALSE, 1, 0)
    ELSE Recognized(IF offline = "text" THEN "words" ELSE NONE, FALSE, 1, 1)

\* _perform_recognition(audio): try recognize_google; except UnknownValueError:
\* return None; except RequestError: try recognize_sphinx, bare except: return
\* None; any other exception leaves the function
PerformRecognition(primary, offline) ==
    CASE primary = "text" -> Recognized("words", FALSE, 1, 0)
      [] primary = "empty" -> Recognized("", FALSE, 1, 0)
      [] primary = "UnknownValueError" -> Recognized(NONE, FALSE, 1, 0)
      [] primary = "RequestError" ->
           Recognized(IF offline = "text" THEN "words" ELSE NONE, FALSE, 1, 1)
      [] OTHER -> Recognized(NONE, TRUE, 1, 0)

\* transcribe_audio(audio_file_path): sr.AudioFile and recognizer.record, then
\* _perform_recognition; except Exception: return None
TranscribeAudio(readable, primary, offline) ==
    IF ~readable THEN Recognized(NONE, FALSE, 0, 0)
    ELSE LET r == PerformRecognition(primary, offline)
         IN IF r.raised THEN Recognized(NONE, FALSE, r.google, r.sphinx) ELSE r

(* ------------------------------------------------------------------ *)
(* The HTTP endpoints (app.py)                                          *)
(* ------------------------------------------------------------------ *)
\* jsonify({'success': True, ...})
Success == [success |-> "true", error |-> FALSE, failed |-> FALSE, escaped |-> FALSE]

\* jsonify({'success': False, 'error': ...}), from a failure return or from
\* the handler's except Exception
Failure == [success |-> "false", error |-> TRUE, failed |-> TRUE, escaped |-> FALSE]

\* jsonify of a body with no 'success' key
Unflagged == [success |-> "absent", error |-> FALSE, failed |-> FALSE, escaped |-> FALSE]

\* the request served: its endpoint, its answer (the 'success' key is "true",
\* "false" or absent from the body), and what its transcription did
Served(endpoint, answer, heard, readable, primary) ==
    [n |-> served.n + 1, endpoint |-> endpoint, success |-> answer.success,
     error |-> answer.error, failed |-> answer.failed, escaped |-> answer.escaped,
     google |-> heard.google, sphinx |-> heard.sphinx, value |-> heard.value,
     readable |-> readable, primary |-> primary]

\* no transcription in this request
Unheard == Recognized(NONE, FALSE, 0, 0)

\* a request is served: the server runs and the request budget is not spent
Serving == app.pc = "serving" /\ served.n < MaxReq

\* /start_recording: audio_handler.start_recording() is True or False, or
\* raises (AttributeError when audio_handler is None)
ServeStartRecording ==
    /\ Serving
    /\ \E out \in {"True", "False", "raise"} :
         served' = Served("start_recording",
                          IF app.audio_handler /\ out = "True" THEN Success ELSE Failure,
                          Unheard, FALSE, "none")
    /\ UNCHANGED app
    /\ UNCHANGED notApp

\* the part /stop_recording and /send_text share, from the gemini_api check
\* to the answer: RuntimeError without a client, generate_response,
\* the two appends and the trim, if ai_response: tts.speak(ai_response)
\* (AttributeError when tts is None)
AnswerChat(resp) ==
    IF ~app.gemini_api \/ resp.raised THEN Failure
    ELSE IF resp.value \notin {"", NONE} /\ ~app.tts THEN Failure
    ELSE Success

\* /stop_recording: audio_handler.stop_recording() gives a file or None, or
\* raises; transcribe_audio(audio_file); then the chat part
ServeStopRecording ==
    /\ Serving
    /\ \E file \in {"file", "None", "raise"}, readable \in BOOLEAN,
          primary \in RecognitionResults, offline \in OfflineResults,
          outcome \in Outcomes, lib \in JsonLibs :
         LET heard == TranscribeAudio(readable, primary, offline)
             resp == GenerateResponse("r", outcome, lib)
         IN served' =
              IF ~app.audio_handler \/ file # "file"
              THEN Served("stop_recording", Failure, Unheard, FALSE, "none")
              ELSE Served("stop_recording",
                          IF heard.value \in {"", NONE} THEN Failure ELSE AnswerChat(resp),
                          heard, readable, primary)
    /\ UNCHANGED app
    /\ UNCHANGED notApp

\* /send_text: data = request.get_json() (raises, or gives None, when the body
\* is no JSON object), text = data.get('text', '').strip(); then the chat part
ServeSendText ==
    /\ Serving
    /\ \E body \in {"text", "blank", "not_json"}, outcome \in Outcomes, lib \in JsonLibs :
         served' = Served("send_text",
                          IF body # "text" THEN Failure
                          ELSE AnswerChat(GenerateResponse("r", outcome, lib)),
                          Unheard, FALSE, "none")
    /\ UNCHANGED app
    /\ UNCHANGED notApp

\* /stop_speaking: tts.stop_speaking(), which catches what its body raises
\* (AttributeError when tts is None)
ServeStopSpeaking ==
    /\ Serving
    /\ served' = Served("stop_speaking", IF app.tts THEN Success ELSE Failure,
                        Unheard, FALSE, "none")
    /\ UNCHANGED app
    /\ UNCHANGED notApp

\* /clear_history: conversation_history = []
ServeClearHistory ==
    /\ Serving
    /\ served' = Served("clear_history", Success, Unheard, FALSE, "none")
    /\ UNCHANGED app
    /\ UNCHANGED notApp

\* /status: jsonify({'recording': ..., 'speaking': ..., 'conversation_length':
\* ..., 'components_initialized': ...}), each component guarded against None
ServeStatus ==
    /\ Serving
    /\ served' = Served("status", Unflagged, Unheard, FALSE, "none")
    /\ UNCHANGED app
    /\ UNCHANGED notApp

\* /model_info: without a client the failure answer; else
\* gemini_api.get_model_info(gemini_api.model), a method GeminiAPI does not
\* have (AttributeError, caught by the handler)
ServeModelInfo ==
    /\ Serving
    /\ served' = Served("model_info", Failure, Unheard, FALSE, "none")
    /\ UNCHANGED app
    /\ UNCHANGED notApp

Serve ==
    \/ ServeStartRecording \/ ServeStopRecording \/ ServeSendText \/ ServeStopSpeaking
    \/ ServeClearHistory \/ ServeStatus \/ ServeModelInfo

NextApp == Boot \/ Serve

\* the process at rest, for the specifications of one component: the web
\* server with its components, no request served
AppAtRest ==
    /\ app = [pc |-> "serving", launch |-> "main", key |-> TRUE, provider |-> "gemini",
              console |-> FALSE, audio_handler |-> TRUE, gemini_api |-> TRUE,
              tts |-> TRUE]
    /\ served = NoReply

(* ------------------------------------------------------------------ *)
(* The specifications                                                  *)
(* ------------------------------------------------------------------ *)
Init == InitRec /\ InitTts /\ InitChat /\ InitApp /\ ~log.watch

\* the front door with the process at rest
InitFront == InitRec /\ InitTts /\ InitChat /\ AppAtRest /\ ~log.watch

\* the other components at rest, for the specifications of one component:
\* a working engine; the web server with an empty history
TtsAtRest == InitTts /\ engine /\ ~log.watch

ChatAtRest == InitChat /\ mode = "web" /\ conversation_history = <<>>

InitRecorder == InitRec /\ TtsAtRest /\ ChatAtRest /\ AppAtRest

InitSpeech == InitRec /\ InitTts /\ ChatAtRest /\ AppAtRest /\ ~log.watch

\* the speech component with the record of its stop_speaking() calls kept
InitStop == InitRec /\ InitTts /\ ChatAtRest /\ AppAtRest /\ log.watch

\* the process alone, from its launch on
InitProcess == InitRec /\ TtsAtRest /\ ChatAtRest /\ InitApp

Next == NextRecRace \/ Tick \/ NextTts \/ NextChat \/ NextApp

Spec == Init /\ [][Next]_vars

SpecRec == InitRecorder /\ [][NextRec]_vars

SpecRecRace == InitRecorder /\ [][NextRecRace]_vars

\* time passes and every capture thread keeps running (the interpreter
\* switches threads; stream.read returns)
SpecRecLive ==
    /\ InitRecorder
    /\ [][NextRecLive]_vars
    /\ WF_vars(Tick)
    /\ \A t \in Threads : WF_vars(CaptureStepPaced(t))

SpecTts == InitSpeech /\ [][NextTts]_vars

SpecPlay == InitSpeech /\ [][NextPlay]_vars

\* a worker thread that keeps being scheduled, with an engine whose
\* runAndWait() returns or raises
SpecFaulty == InitSpeech /\ [][NextFaulty]_vars /\ WF_vars(WorkerStep \/ WorkerRaise)

SpecQueue == InitSpeech /\ [][NextQueue]_vars

SpecStop == InitStop /\ [][NextStop]_vars

SpecCleanup == InitSpeech /\ [][NextCleanup]_vars

\* shutdown with a worker thread that keeps being scheduled and an engine
\* whose runAndWait() returns
SpecShutdown == InitSpeech /\ [][NextShutdown]_vars /\ WF_vars(WorkerStep)

SpecApp == InitProcess /\ [][NextApp]_vars

SpecChat == InitFront /\ [][NextChat]_vars

SpecChatSeq == InitFront /\ [][NextChatSeq]_vars

\* the web server with its engine, at any of the histories
InitWeb == InitRec /\ TtsAtRest /\ InitChat /\ AppAtRest /\ mode = "web"

SpecChatRace == InitWeb /\ [][NextChatRace]_vars

(* ------------------------------------------------------------------ *)
(* Speech playback: properties                                         *)
(* ------------------------------------------------------------------ *)
\* the threads inside engine.say / engine.runAndWait
InEngine == {c \in Callers : sp[c].pc = "run"} \cup (IF wk.pc = "run" THEN {0} ELSE {})

\* C3: for every interleaving of speak (queued and blocking), stop_speaking and
\* the worker, at most one utterance is inside the synthesis engine call.
C3_OneInEngine == Cardinality(InEngine) <= 1

\* C4: with no stop_speaking call, the worker starts synthesis of the queued
\* utterances in exactly the order they were enqueued, and starts one only
\* after the one before it has finished.
C4_SpokenInOrder ==
    log.stops = 0 =>
        /\ Len(log.started) <= Len(log.enq)
        /\ \A i \in 1..Len(log.started) : log.started[i] = log.enq[i]
        /\ engine => Len(log.started) - log.done = (IF wk.pc = "run" THEN 1 ELSE 0)

\* three queued utterances were synthesized, none was stopped
C4_Witness ==
    /\ log.stops = 0
    /\ Len(log.enq) >= 3
    /\ Len(log.started) = Len(log.enq)
    /\ log.done = Len(log.enq)

\* C5: once stop_speaking() has returned, no utterance enqueued before the call
\* whose synthesis had not started is ever synthesized.
C5_StoppedStaysSilent == log.banned \cap Range(log.started) = {}

\* C10: from the first enqueue until the worker is through with the last
\* utterance (no stop_speaking call), is_busy() is true.
C10_BusyUntilDone == (log.stops = 0 /\ log.done < Len(log.enq)) => IsBusy

(* ------------------------------------------------------------------ *)
(* Conversation history and generate_response: properties             *)
(* ------------------------------------------------------------------ *)
\* C6: whenever no request or command is being served, whatever front door
\* the turns came through, the conversation history holds at most 20 turns.
C6_HistoryCapped ==
    (\A h \in Handlers : ~Busy(h)) => Len(conversation_history) <= MaxHistory

Called == {h \in Handlers : rq[h].outcome # "none"}

\* C8: whatever the remote call does, generate_response raises nothing and
\* returns a string; on a transport failure it returns the connectivity-failure
\* string.
C8_NeverRaisesReturnsString ==
    \A h \in Called :
        /\ ~rq[h].resp.raised
        /\ rq[h].resp.value # NONE
        /\ rq[h].outcome = "transport" => rq[h].resp.value = CONNECT_FAIL

Fallbacks == {CONNECT_FAIL, INVALID_RESPONSE, UNEXPECTED}

NonSuccess == Outcomes \ {"reply", "empty_reply"}

\* C9: every non-success outcome of generate_response returns one of exactly
\* three fallback strings (connectivity failure, invalid response, unexpected
\* error).
C9_ThreeFallbacks ==
    \A h \in Called :
        rq[h].outcome \in NonSuccess => rq[h].resp.value \in Fallbacks

(* ------------------------------------------------------------------ *)
(* Recorder: further properties                                        *)
(* ------------------------------------------------------------------ *)
\* request thread c makes this step as the first step of a stop_recording call
CallsStop(c) ==
    /\ cl[c].pc = "idle"
    /\ cl'[c].pc # "idle"
    /\ cl'[c].ret.op = "stop"

\* C12: a stop_recording call made while is_recording is False returns None
\* at once and leaves the recorder (flag, frames, thread handle, capture
\* threads) as it was, so that any number of such calls in a row do the same.
C12_StopWhenIdle ==
    [][\A c \in Clients :
         (CallsStop(c) /\ ~is_recording) =>
             /\ cl'[c].pc = "returned"
             /\ cl'[c].ret.kind = "None"
             /\ UNCHANGED <<is_recording, audio_data, recording_thread, thr, nthreads>>]_vars

\* the second of two stop_recording calls in a row on a recorder that never
\* recorded has returned None
C12_Witness ==
    /\ ncalls = 2
    /\ nthreads = 0
    /\ Starting = {}
    /\ ~is_recording
    /\ cl[1].pc = "returned"
    /\ cl[1].ret.op = "stop"
    /\ cl[1].ret.kind = "None"

\* capture thread t reads a chunk in this step whose root-mean-square is below
\* SILENCE_THRESHOLD, in a run of such chunks that began more than
\* SILENCE_DURATION ago
ReadsLateQuiet(t) ==
    /\ thr[t].pc = "read"
    /\ thr'[t].nread = thr[t].nread + 1
    /\ thr[t].quiet_first # 0
    /\ thr'[t].quiet_first = thr[t].quiet_first
    /\ thr[t].since_quiet > SILENCE_DURATION

\* C13: the capture loop is left at the first sub-threshold chunk read more
\* than SILENCE_DURATION after the first chunk of its run of sub-threshold
\* chunks: no further chunk is read.
C13_SilenceEndsLoop ==
    [][\A t \in Threads : ReadsLateQuiet(t) => thr'[t].pc = "finally"]_vars

\* the frames 1..n of session t, as the capture thread appended them
FramesOf(t, n) == [i \in 1..n |-> [sess |-> t, idx |-> i]]

\* C14: when the capture loop is left on the silence timeout, the frames held
\* for the recording are exactly those captured up to and including the first
\* chunk of the silent run that ended it.
C14_RecordingEndsAtFirstSilent ==
    \A t \in Threads :
        (thr[t].pc = "finally" /\ thr[t].exitReason = "silence")
            => audio_data = FramesOf(t, thr[t].run_first)

\* capture thread t reads a chunk in this step, more than
\* MAX_RECORDING_DURATION after the session began
ReadsLate(t) ==
    /\ thr[t].pc = "read"
    /\ thr'[t].nread = thr[t].nread + 1
    /\ thr[t].since_start > MAX_RECORDING_DURATION

Alive(t) == thr[t].pc \in {"open", "read", "finally"}

Ended(t) == thr[t].pc \in {"done", "dead"}

\* C15: whatever the chunks are, the capture loop is left at the end of the
\* first iteration that finds more than MAX_RECORDING_DURATION elapsed since
\* the session began; and, chunk reads returning, every session ends, stopped
\* by hand or not.
C15_DurationEndsLoop ==
    /\ [][\A t \in Threads : ReadsLate(t) => thr'[t].pc = "finally"]_vars
    /\ \A t \in Threads : Alive(t) ~> Ended(t)

\* a session ended by the duration test alone
C15_Witness ==
    \E t \in Threads :
        /\ thr[t].exitReason = "maxdur"
        /\ thr[t].pc = "done"

\* the session whose end the stop_recording call of request thread c has
\* waited for (NoThread: the call has not come back from a join)
Joined(c) ==
    IF cl[c].pc \in {"stop_save", "returned"} /\ cl[c].ret.op = "stop"
    THEN cl[c].join ELSE NoThread

\* C16: a capture thread that has finished, on whatever exit path, has closed
\* its stream, and so has the session a stop_recording call has waited for
\* when that call returns.
C16_StreamClosedAtExit ==
    /\ \A t \in Threads : Ended(t) => ~thr[t].stream
    /\ \A c \in Clients : Joined(c) # NoThread => ~thr[Joined(c)].stream

\* one session left the loop on a failed read and has finished, another was
\* stopped by hand and the stop_recording call has returned
C16_Witness ==
    /\ \E t \in Threads :
         thr[t].pc = "done" /\ thr[t].exitReason = "error" /\ thr[t].nread >= 1
    /\ cl[1].pc = "returned"
    /\ Joined(1) # NoThread
    /\ thr[Joined(1)].exitReason = "manual"

\* C17: start_recording does not report that recording started for a session
\* whose input device could not be opened.
C17_OpenFailureSurfaced ==
    \A c \in Clients :
        (cl[c].pc = "returned" /\ cl[c].ret.op = "start" /\ cl[c].ret.kind = "True")
            => thr[cl[c].ret.sess].exitReason # "openfail"

\* C18: the next stop_recording after a session whose chunk read failed with
\* k >= 1 frames captured returns a recording of exactly those k frames.
C18_FramesSurviveReadError ==
    \A c \in Clients :
        ( /\ cl[c].pc = "returned"
          /\ cl[c].ret.op = "stop"
          /\ cl[c].ret.sess # NoThread
          /\ thr[cl[c].ret.sess].exitReason = "error"
          /\ thr[cl[c].ret.sess].nread >= 1 )
        => /\ cl[c].ret.kind = "file"
           /\ cl[c].ret.frames = FramesOf(cl[c].ret.sess, thr[cl[c].ret.sess].nread)

(***************************************************************************)
(* Speech queue: further properties                                        *)
(***************************************************************************)

\* the utterances whose synthesis the worker has begun
Synthesized == {log.started[i] : i \in 1..Len(log.started)}

\* C19: an utterance queued by speak() leaves the queue at most once, taken by
\* the worker or dropped by stop_speaking()/cleanup(); it is never synthesized
\* twice and never both synthesized and dropped, however the worker and the
\* stopping callers interleave
C19_RemovedOnce ==
    /\ ~log.twice
    /\ log.taken \cap log.dropped = {}
    /\ Synthesized \subseteq log.taken
    /\ engine => log.taken \subseteq (Synthesized \cup {wk.text})
    /\ \A i, j \in 1..Len(log.started) : log.started[i] = log.started[j] => i = j
    /\ \A i \in 1..Len(speech_queue) :
         speech_queue[i] # NONE => speech_queue[i] \notin (log.taken \cup log.dropped)

\* a stop dropped one utterance after the worker synthesized another
C19_Witness ==
    /\ log.dropped \ {NONE} # {}
    /\ Synthesized # {}
    /\ log.stops >= 1

\* C20: once cleanup() has been called the worker leaves its loop, provided the
\* synthesis in progress returns, and a worker that has left its loop stays out
\* of it and takes nothing more from the queue; so it is when the worker takes
\* the sentinel and when a stop_speaking() drains the sentinel first
C20_WorkerEndsAfterCleanup ==
    /\ [][wk.pc = "done" => wk'.pc = "done" /\ log'.taken = log.taken]_vars
    /\ should_stop ~> wk.pc = "done"

\* the only sentinel ever queued was drained by stop_speaking(), and the worker
\* has left its loop
C20_Witness ==
    /\ wk.pc = "done"
    /\ log.stops = 1
    /\ NONE \in log.dropped

\* the step at which a cleanup() call of thread c returns
CleanupReturns(c) == sp[c].pc = "unmark" /\ sp[c].cleanup /\ sp'[c].pc = "idle"

Endpoints == {"start_recording", "stop_recording", "send_text", "stop_speaking",
              "clear_history", "status", "model_info"}

\* C22: every endpoint answers, whatever components exist, with a body that
\* carries a success flag; a failed operation has the flag false and an error
\* message; no exception leaves a handler
C22_AnswersCarrySuccessFlag ==
    served.endpoint \in Endpoints =>
        /\ served.success \in {"true", "false"}
        /\ served.failed => (served.success = "false" /\ served.error)
        /\ ~served.escaped

\* the recording of the last request was loaded and handed to the recognizer
Transcribed == served.endpoint = "stop_recording" /\ served.readable

\* C23: transcribing a recording calls the primary backend once, calls the
\* offline backend (once) exactly when the primary raised RequestError, gives
\* None without the offline backend when the primary could not understand the
\* audio, and returns text or None
C23_FallbackOnRequestErrorOnly ==
    Transcribed =>
        /\ served.google = 1
        /\ served.sphinx = (IF served.primary = "RequestError" THEN 1 ELSE 0)
        /\ served.primary = "UnknownValueError" => served.value = NONE
        /\ served.value \in {"words", "", NONE}

\* the primary backend raised RequestError and the offline one gave the text
C23_Witness ==
    /\ Transcribed
    /\ served.primary = "RequestError"
    /\ served.sphinx = 1
    /\ served.value = "words"

\* C24: without the credential in the configuration the process exits: it
\* neither serves HTTP nor runs the console loop, and creates neither the
\* recorder nor the speech worker
C24_NoCredentialNoStart ==
    (app.launch = "main" /\ ~app.key) =>
        /\ app.pc \in {"validate", "exited"}
        /\ ~app.audio_handler
        /\ ~app.tts

\* a process started without the credential has exited
C24_Witness == app.launch = "main" /\ ~app.key /\ app.pc = "exited"

(***************************************************************************)
(* Recorder: the file written                                              *)
(***************************************************************************)

\* the stop_recording calls that returned a file
Saved == {c \in Clients : cl[c].pc = "returned" /\ cl[c].ret.kind = "file"}

Clears == \E h \in Handlers : ~OthersBusy(h) /\ rq[h].pc = "idle" /\ chat'.cleared /\ ~chat.cleared

\* C26: clear_history, served with no other request in flight, leaves the
\* history empty and the recorder and the speech queue as they were; the
\* generate_response call of the next request is handed no earlier turn
C26_ClearEmptiesHistoryOnly ==
    /\ [][Clears => /\ conversation_history' = <<>>
                    /\ UNCHANGED <<recVars, speech_queue>>]_vars
    /\ [](\A h \in Handlers : (chat.cleared /\ rq[h].pc = "user") => rq[h].prior = <<>>)

\* the first request after a clear has called generate_response, with a reply
\* of an earlier request still in the speech queue
C26_Witness ==
    /\ chat.cleared
    /\ \E h \in Handlers : rq[h].pc = "user"
    /\ speech_queue # <<>>

(***************************************************************************)
(* Speech: blank text                                                      *)
(***************************************************************************)

\* the step is a speak() call with blank text
SpeaksBlank == log'.blanks # log.blanks

\* C27: speak() with empty or whitespace-only text, queued or blocking, changes
\* nothing: the queue, the speaking flag and is_busy() stay as they were and
\* the engine is not called
C27_BlankSpeakIsNoOp ==
    [][SpeaksBlank => /\ speech_queue' = speech_queue
                      /\ is_speaking' = is_speaking
                      /\ IsBusy' = IsBusy
                      /\ log'.started = log.started
                      /\ UNCHANGED <<wk, sp>>]_vars

\* blank text was spoken and an utterance waits in the queue
C27_Witness == log.blanks >= 1 /\ speech_queue # <<>>

(***************************************************************************)
(* Recorder: loudness and the silence timer                                *)
(***************************************************************************)

\* capture thread t reads a chunk in this step
ReadsChunk(t) == thr'[t].nread = thr[t].nread + 1

\* C28: the loudness the loop compares with SILENCE_THRESHOLD is the true
\* root-mean-square of the chunk: a chunk is taken for silent exactly when its
\* root-mean-square, with squares that do not wrap, is below the threshold
C28_LoudnessIsTrueRms ==
    [][\A t \in Threads :
         ReadsChunk(t) => ((thr'[t].run_first # 0) = (thr'[t].quiet_first # 0))]_vars

\* C29: when stop_recording returns for an active session, the session's
\* capture thread has ended and reads no chunk afterwards, and the recording
\* returned holds every frame the session read
C29_StopAfterLastFrame ==
    /\ [](\A c \in Clients :
            (cl[c].pc = "returned" /\ Joined(c) # NoThread) =>
                /\ Ended(Joined(c))
                /\ thr[Joined(c)].nread >= 1 =>
                     /\ cl[c].ret.kind = "file"
                     /\ cl[c].ret.frames = FramesOf(Joined(c), thr[Joined(c)].nread))
    /\ [][\A t \in Threads : Ended(t) => thr'[t].nread = thr[t].nread]_vars

\* a session of two frames was stopped by hand and the call has returned
\* C30: a chunk whose root-mean-square is at or above SILENCE_THRESHOLD
\* resets the silence timer (silence_start is unset after it and the loop does
\* not leave on silence at it); the first chunk of a run of chunks below the
\* threshold never triggers the silence exit; and a silence exit happens only
\* when every chunk read since the recorded silence_start was below the
\* threshold.
C30_LoudResetsSilenceTimer ==
    [][\A t \in Threads :
         ReadsChunk(t) =>
             /\ thr'[t].quiet_first = 0 =>
                  (~thr'[t].silence_set /\ thr'[t].exitReason # "silence")
             /\ thr'[t].quiet_first = thr'[t].nread => thr'[t].exitReason # "silence"
             /\ thr'[t].exitReason = "silence" =>
                  /\ thr'[t].run_first # 0
                  /\ thr'[t].quiet_first # 0
                  /\ thr'[t].quiet_first <= thr'[t].run_first]_vars

\* C31: once stop_recording has cleared is_recording for a running session,
\* the capture thread of that session completes at most the chunk read it was
\* in (appending that chunk) and then leaves its loop: a read that ends after
\* the signal is the last one, and a thread that had not opened its stream yet
\* reads nothing.
C31_StopEndsLoopAfterChunk ==
    [][\A t \in Threads :
         thr[t].signalled /\ thr'[t].pc # thr[t].pc => thr'[t].pc # "read"]_vars

\* C32: a stop_speaking() call made while an utterance is inside the engine
\* leaves that utterance asked to stop (by this call, or by an earlier one).
C32_HaltAsked ==
    \A c \in Callers : (sp[c].owed /\ sp[c].pc \in {"drain", "unmark"}) => sp[c].halt

\* C32: once a stop_speaking() call made while an utterance was inside the
\* engine has returned, with no speak() call since it began, is_busy() is
\* false and stays false until the next speak() call (cleanup(), which queues
\* its sentinel, set aside).
C32_QuietAfterStop == (log.quiet /\ ~should_stop) => ~IsBusy

\* C32: both parts.
C32_StopHaltsAndQuiets == C32_HaltAsked /\ C32_QuietAfterStop

\* the role tokens of the remote endpoint
RoleTokens == {"user", "model"}

\* the role token a turn of the history is to be sent with
TokenOf(role) == IF role = "assistant" THEN "model" ELSE "user"

\* C33: the request generate_response builds for history h and text t has
\* Len(h) + 1 entries: the turns of h in order, each with its content and with
\* a role token of the remote endpoint (user turns 'user', assistant turns
\* 'model'), then one 'user' entry with t.
C33_RequestFromHistory ==
    \A h \in Handlers :
        rq[h].req # <<>> =>
            /\ Len(rq[h].req) = Len(rq[h].prior) + 1
            /\ rq[h].req[Len(rq[h].req)] = Entry("user", rq[h].text)
            /\ \A i \in 1..Len(rq[h].prior) :
                 /\ rq[h].req[i].parts = <<[text |-> rq[h].prior[i].content]>>
                 /\ rq[h].req[i].role \in RoleTokens
                 /\ rq[h].req[i].role = TokenOf(rq[h].prior[i].role)

\* C34: a /send_text or /stop_recording request that reached the remote call
\* appends, whatever generate_response returned, the user turn and then the
\* assistant turn to the history it made the call with, and enqueues the
\* returned reply, and nothing else, for speech.
C34_TurnsAndOneUtterance ==
    [][\A h \in Handlers :
         mode = "web" =>
             /\ (rq[h].pc = "assistant" /\ rq'[h].pc # "assistant") =>
                  conversation_history' =
                      rq[h].prior \o <<Turn("user", rq[h].text),
                                       Turn("assistant", rq[h].resp.value)>>
             /\ (rq[h].pc = "speak" /\ rq'[h].pc # "speak") =>
                  speech_queue' = Append(speech_queue, rq[h].resp.value)]_vars

\* the requests that ended before the remote call: /send_text with an empty or
\* blank text, /stop_recording with no audio or no transcription
Declined(h) == rq[h].pc # "idle" /\ rq[h].text \in {"", NONE}

\* C35: a /send_text request whose text is empty or blank, and a
\* /stop_recording request with no audio or no transcription, is answered
\* with success false without a remote call, and the step that takes it
\* leaves the conversation history and the speech queue as they were.
C35_DeclinedLeavesNoTrace ==
    /\ [](\A h \in Handlers :
            Declined(h) =>
                /\ rq[h].pc = "answered"
                /\ rq[h].ans = "failure"
                /\ rq[h].outcome = "none"
                /\ rq[h].req = <<>>)
    /\ [][\A h \in Handlers :
            (Declined(h) \/ Declined(h)') /\ rq'[h] # rq[h] =>
                /\ conversation_history' = conversation_history
                /\ speech_queue' = speech_queue]_vars

C35_Witness ==
    \E h \in Handlers :
        /\ Declined(h)
        /\ rq[h].kind = "stop_recording"
        /\ rq[h].text = NONE
        /\ conversation_history # <<>>

\* C36: under every interleaving of concurrent /send_text, /stop_recording and
\* /clear_history handlers, a request appends its assistant turn right after
\* its own user turn (unless a clear has emptied the history in between), and
\* the only turns a handler removes from the history are the oldest ones beyond
\* the window of MaxHistory (or all of them, by a clear).
C36_TurnsStayPaired ==
    [][\A h \in Handlers :
         mode = "web" =>
             /\ (rq[h].pc = "assistant" /\ rq'[h].pc # "assistant") =>
                  \/ conversation_history = <<>>
                  \/ conversation_history[Len(conversation_history)]
                         = Turn("user", rq[h].text)
             /\ (rq[h].pc = "store" /\ rq'[h].pc # "store") =>
                  conversation_history' = LastTurns(conversation_history)]_vars

\* C37: an exception raised while an utterance is synthesized does not end the
\* worker: after it the worker is still in its loop, the speaking flag is
\* False whenever the worker is between two utterances (and no caller speaks
\* in blocking mode), and every utterance enqueued is still synthesized, in the
\* order of the queue.
C37_WorkerSurvivesException ==
    /\ [](log.raised =>
            /\ wk.pc # "done"
            /\ (wk.pc \in {"test", "get", "got"} /\ \A c \in Callers : sp[c].pc = "idle")
                   => ~is_speaking
            /\ Len(log.started) <= Len(log.enq)
            /\ \A i \in 1..Len(log.started) : log.started[i] = log.enq[i])
    /\ \A n \in 1..MaxUtter :
         (engine /\ log.raised /\ Text(n) \in Range(log.enq))
             ~> (Text(n) \in Range(log.started))

\* an utterance raised, and three queued utterances went through the engine
C37_Witness ==
    /\ log.raised
    /\ Len(log.started) >= 3
    /\ wk.pc = "test"
    /\ ~is_speaking

\* C38: a recording returned by stop_recording holds exactly the frames read in
\* the session of the most recent successful start_recording (the thread the
\* call joined), in the order they were read, and no frame of another session.
C38_RecordingIsLastSession ==
    \A c \in Clients :
        (cl[c].pc = "returned" /\ cl[c].ret.op = "stop" /\ cl[c].ret.kind = "file") =>
            /\ Joined(c) # NoThread
            /\ Joined(c) = nthreads
            /\ cl[c].ret.frames = FramesOf(Joined(c), thr[Joined(c)].nread)

\* C39: whenever the capture thread of the last session has terminated, for
\* whatever reason, and no start_recording call is under way, is_recording is
\* False (so /status reports recording false and the next start_recording is
\* accepted).
C39_FlagFalseAfterThreadEnds ==
    (recording_thread # NoThread /\ Ended(recording_thread) /\ Starting = {})
        => ~is_recording

\* no thread is inside the speech component: the worker has ended and no
\* call is under way, so nothing changes until the next call
AtRest == wk.pc = "done" /\ \A c \in Callers : sp[c].pc = "idle"

\* C40: once no further utterance is enqueued and every synthesis call has
\* returned, is_busy() becomes false and stays false, from every state the
\* component can reach, cleanup() included.  When the worker has ended and no
\* call is under way the value of is_busy() is final: it has to be false, or
\* wait_until_done() without a timeout never ends.
C40_EventuallyIdle == AtRest => ~IsBusy

====
